---- MODULE Spec2Model ----
(***************************************************************************)
(* A model of MdnsServer (src/plugins/mdns/mdnsserver.cpp): the two UDP    *)
(* sockets and their periodic bind-and-join cycle, the hostname probing    *)
(* state machine, and the query responder with its record generation.     *)
(*                                                                         *)
(* Every handler of the class is one action.  The variables below the      *)
(* member fields record what the running handler received and did          *)
(* (datagrams written, errors emitted, groups joined, binds attempted), so *)
(* that properties can speak about a handler's effects; they are cleared   *)
(* when the handler returns to the event loop.                             *)
(***************************************************************************)
EXTENDS Integers, Sequences, FiniteSets, TLC

VARIABLES
    mHostnameConfirmed, \* bool MdnsServer::mHostnameConfirmed
    mHostname,          \* QString MdnsServer::mHostname
    mHostnameSuffix,    \* int MdnsServer::mHostnameSuffix
    mIpv4Socket,        \* state() of QUdpSocket mIpv4Socket
    mIpv6Socket,        \* state() of QUdpSocket mIpv6Socket
    mSocketTimer,       \* QTimer mSocketTimer (single shot, 60 s)
    mHostnameTimer,     \* QTimer mHostnameTimer (single shot, 2 s)
    allInterfaces,      \* what QNetworkInterface::allInterfaces() returns now
    handler,            \* the handler that has run, "none" in the event loop
    message,            \* the datagram onReadyRead read
    written,            \* the handler's writeDatagram calls, in order
    errors,             \* the error(...) signals the handler emitted
    joined,             \* the handler's joinMulticastGroup calls, in order
    bindCalls,          \* the handler's bindSocket calls, in order
    conflicts,          \* history: conflicts handled since probing last started
    sinceProbe,         \* history: seconds since probes were last written
    probed              \* history: the names of the last A and AAAA probe written

vars == << mHostnameConfirmed, mHostname, mHostnameSuffix, mIpv4Socket,
           mIpv6Socket, mSocketTimer, mHostnameTimer, allInterfaces, handler,
           message, written, errors, joined, bindCalls, conflicts, sinceProbe,
           probed >>

----------------------------------------------------------------------------
(* Bounds of the model *)

\* mHostnameSuffix is an unbounded counter: no datagram is read while probing
\* once it has reached MaxSuffix.
MaxSuffix == 4
\* The longest record section of an inbound message.
MaxRecords == 2
\* The longest query section of an inbound message.
MaxQueries == 2

----------------------------------------------------------------------------
(* Program constants *)

\* const quint32 DefaultTtl = 60 * 60;
DefaultTtl == 60 * 60
\* mHostnameTimer.start(2 * 1000), in seconds
HostnameInterval == 2
\* The socket timer started with less than the probe window
SocketInterval_Short == HostnameInterval - 1
\* mSocketTimer.start(60 * 1000), in seconds
SocketInterval == 60
\* QHostInfo::localHostName()
localHostName == "laptop"

----------------------------------------------------------------------------
(* Addresses, interfaces *)

\* A unicast address is a protocol and a bit string.
Addr(protocol, bits) == [protocol |-> protocol, multicast |-> FALSE, bits |-> bits]

\* Mdns::Ipv4Address and Mdns::Ipv6Address, the two multicast groups
Ipv4Address == [protocol |-> "IPv4", multicast |-> TRUE, bits |-> <<>>]
Ipv6Address == [protocol |-> "IPv6", multicast |-> TRUE, bits |-> <<>>]

\* QHostAddress::isInSubnet(subnet, netmask): same protocol, and the first
\* netmask bits agree.
isInSubnet(address, subnet, netmask) ==
    /\ address.protocol = subnet.protocol
    /\ netmask <= Len(address.bits)
    /\ netmask <= Len(subnet.bits)
    /\ \A i \in 1..netmask : address.bits[i] = subnet.bits[i]

Entry(ip, prefixLength) == [ip |-> ip, prefixLength |-> prefixLength]

Interface(name, canMulticast, addressEntries) ==
    [name |-> name, canMulticast |-> canMulticast, addressEntries |-> addressEntries]

\* The states of the host's network the cycle and the responder may find.
Topologies ==
    { \* no interface at all
      << >>,
      \* one dual-stack interface
      << Interface("eth0", TRUE, << Entry(Addr("IPv4", <<0, 1>>), 1),
                                    Entry(Addr("IPv6", <<0, 1>>), 1) >>) >>,
      \* an IPv4-only interface and an IPv6-only one without multicast
      << Interface("eth0", TRUE, << Entry(Addr("IPv4", <<0, 1>>), 1) >>),
         Interface("tun0", FALSE, << Entry(Addr("IPv6", <<0, 1>>), 1) >>) >>,
      \* a host without any IPv4 address
      << Interface("eth0", TRUE, << Entry(Addr("IPv6", <<0, 1>>), 1) >>) >>,
      \* a host without any IPv6 address
      << Interface("eth0", TRUE, << Entry(Addr("IPv4", <<0, 1>>), 1) >>) >>,
      \* two interfaces on the same IPv6 subnet, the second also with IPv4
      << Interface("eth0", TRUE, << Entry(Addr("IPv6", <<0, 1>>), 1) >>),
         Interface("eth1", TRUE, << Entry(Addr("IPv6", <<0, 0>>), 1),
                                    Entry(Addr("IPv4", <<1, 0>>), 1) >>) >> }

\* Where datagrams come from.
Sources == { Addr("IPv4", <<0, 0>>), Addr("IPv4", <<1, 1>>),
             Addr("IPv6", <<0, 0>>), Addr("IPv6", <<1, 1>>) }

RECURSIVE EntryAddresses(_)
EntryAddresses(entries) ==
    IF entries = << >> THEN << >>
    ELSE << Head(entries).ip >> \o EntryAddresses(Tail(entries))

\* QNetworkInterface::allAddresses() is a static member: called on any
\* interface object it returns the addresses of every interface of the host.
RECURSIVE allAddresses(_)
allAddresses(interfaces) ==
    IF interfaces = << >> THEN << >>
    ELSE EntryAddresses(Head(interfaces).addressEntries) \o allAddresses(Tail(interfaces))

HasProtocol(addresses, protocol) ==
    \E i \in 1..Len(addresses) : addresses[i].protocol = protocol

----------------------------------------------------------------------------
(* Messages *)

\* MdnsMessage as this class uses it.  decoded is the result of
\* Mdns::fromPacket for an inbound datagram.
Message(decoded, isResponse, address, protocol, queries, records) ==
    [decoded |-> decoded, isResponse |-> isResponse, address |-> address,
     protocol |-> protocol, port |-> "Mdns::Port", queries |-> queries,
     records |-> records]

NoMessage == Message(FALSE, FALSE, Ipv4Address, "IPv4", << >>, << >>)

Query(name, type) == [name |-> name, type |-> type]

Record(name, type, ttl, address) ==
    [name |-> name, type |-> type, ttl |-> ttl, address |-> address]

\* One call of QUdpSocket::writeDatagram: the socket, its state at the call
\* and the message the packet encodes.
Datagram(msg, ipv4, ipv6) ==
    [socket |-> msg.protocol,
     socketState |-> IF msg.protocol = "IPv4" THEN ipv4 ELSE ipv6,
     packet |-> msg]

\* MdnsServer::sendMessage: the datagrams it writes
sendMessage(msg, ipv4, ipv6) ==
    (IF msg.protocol = "IPv4" THEN << Datagram(msg, ipv4, ipv6) >> ELSE << >>)
    \o (IF msg.protocol = "IPv6" THEN << Datagram(msg, ipv4, ipv6) >> ELSE << >>)

\* MdnsServer::checkHostname: one query for the name, sent to the group
checkHostname(protocol, hostname, ipv4, ipv6) ==
    sendMessage(Message(TRUE, FALSE,
                        IF protocol = "IPv4" THEN Ipv4Address ELSE Ipv6Address,
                        protocol,
                        << Query(hostname, IF protocol = "IPv4" THEN "A" ELSE "AAAA") >>,
                        << >>),
                ipv4, ipv6)

\* MdnsMessage::reply(): the envelope of an answer to msg, without records
reply(msg) == Message(TRUE, TRUE, msg.address, msg.protocol, << >>, << >>)

\* The name of the last probe for the type among the datagrams, or the one
\* before them.
RECURSIVE LastProbed(_, _, _)
LastProbed(datagrams, type, before) ==
    IF datagrams = << >> THEN before
    ELSE LET packet == Head(datagrams).packet
             name == IF /\ ~packet.isResponse
                        /\ packet.queries # << >>
                        /\ packet.queries[1].type = type
                     THEN packet.queries[1].name
                     ELSE before
         IN  LastProbed(Tail(datagrams), type, name)

\* probed after these datagrams have been written
Probed(datagrams, before) ==
    [A |-> LastProbed(datagrams, "A", before.A),
     AAAA |-> LastProbed(datagrams, "AAAA", before.AAAA)]

NeverProbed == [A |-> "", AAAA |-> ""]

----------------------------------------------------------------------------
(* Record generation *)

NoRecord == [ok |-> FALSE, record |-> Record("", "", 0, Ipv4Address)]

\* TypeMatches with the two protocols exchanged
TypeMatches_Swapped(addresses, type) ==
    \E i \in 1..Len(addresses) :
        \/ addresses[i].protocol = "IPv6" /\ type = "A"
        \/ addresses[i].protocol = "IPv4" /\ type = "AAAA"

\* The innermost loop of generateRecord: does interface.allAddresses() hold
\* an address of the protocol the type asks for?
TypeMatches(addresses, type) ==
    \E i \in 1..Len(addresses) :
        \/ addresses[i].protocol = "IPv4" /\ type = "A"
        \/ addresses[i].protocol = "IPv6" /\ type = "AAAA"

\* The loop over interface.addressEntries(): the first entry whose subnet
\* holds the address decides; the break leaves this loop only.
RECURSIVE ScanEntries(_, _, _, _, _)
ScanEntries(entries, address, type, hostname, interfaces) ==
    IF entries = << >> THEN NoRecord
    ELSE IF isInSubnet(address, Head(entries).ip, Head(entries).prefixLength)
         THEN IF TypeMatches(allAddresses(interfaces), type)
              THEN [ok |-> TRUE,
                    record |-> Record(hostname, type, DefaultTtl, Head(entries).ip)]
              ELSE NoRecord
         ELSE ScanEntries(Tail(entries), address, type, hostname, interfaces)

\* The loop over QNetworkInterface::allInterfaces()
RECURSIVE ScanInterfaces(_, _, _, _, _)
ScanInterfaces(rest, address, type, hostname, interfaces) ==
    IF rest = << >> THEN NoRecord
    ELSE LET found == ScanEntries(Head(rest).addressEntries, address, type,
                                  hostname, interfaces)
         IN  IF found.ok THEN found
             ELSE ScanInterfaces(Tail(rest), address, type, hostname, interfaces)

\* MdnsServer::generateRecord: [ok, record]
generateRecord(address, type, hostname, interfaces) ==
    ScanInterfaces(interfaces, address, type, hostname, interfaces)

----------------------------------------------------------------------------
(* The query responder *)

\* Queried without the comparison of the name
Queried_AnyName(queries, hostname, type) ==
    \E i \in 1..Len(queries) : queries[i].type = type

\* The loop over message.queries(): was the name asked for with this type?
Queried(queries, hostname, type) ==
    \E i \in 1..Len(queries) : queries[i].name = hostname /\ queries[i].type = type

\* onMessageReceived with the AAAA record generated only after an A record
onMessageReceived_Dependent(msg, hostname, interfaces, ipv4, ipv6) ==
    IF msg.isResponse THEN << >>
    ELSE LET queryA == Queried(msg.queries, hostname, "A")
             queryAAAA == Queried(msg.queries, hostname, "AAAA")
             ipv4Record == generateRecord(msg.address, "A", hostname, interfaces)
             ipv6Record == generateRecord(msg.address, "AAAA", hostname, interfaces)
             answer == IF queryA /\ ipv4Record.ok
                       THEN << ipv4Record.record >>
                            \o (IF queryAAAA /\ ipv6Record.ok
                                THEN << ipv6Record.record >> ELSE << >>)
                       ELSE << >>
             response == [reply(msg) EXCEPT !.records = @ \o answer]
         IN  IF queryA \/ queryAAAA
             THEN IF Len(response.records) # 0
                  THEN sendMessage(response, ipv4, ipv6)
                  ELSE << >>
             ELSE << >>

\* onMessageReceived without the test of reply.records().length()
onMessageReceived_SendsEmpty(msg, hostname, interfaces, ipv4, ipv6) ==
    IF msg.isResponse THEN << >>
    ELSE LET queryA == Queried(msg.queries, hostname, "A")
             queryAAAA == Queried(msg.queries, hostname, "AAAA")
             ipv4Record == generateRecord(msg.address, "A", hostname, interfaces)
             ipv6Record == generateRecord(msg.address, "AAAA", hostname, interfaces)
             answer == (IF queryA /\ ipv4Record.ok THEN << ipv4Record.record >> ELSE << >>)
                       \o (IF queryAAAA /\ ipv6Record.ok THEN << ipv6Record.record >> ELSE << >>)
             response == [reply(msg) EXCEPT !.records = @ \o answer]
         IN  IF queryA \/ queryAAAA
             THEN sendMessage(response, ipv4, ipv6)
             ELSE << >>

\* MdnsServer::onMessageReceived: the datagrams it writes
onMessageReceived(msg, hostname, interfaces, ipv4, ipv6) ==
    IF msg.isResponse THEN << >>
    ELSE LET queryA == Queried(msg.queries, hostname, "A")
             queryAAAA == Queried(msg.queries, hostname, "AAAA")
             ipv4Record == generateRecord(msg.address, "A", hostname, interfaces)
             ipv6Record == generateRecord(msg.address, "AAAA", hostname, interfaces)
             answer == (IF queryA /\ ipv4Record.ok THEN << ipv4Record.record >> ELSE << >>)
                       \o (IF queryAAAA /\ ipv6Record.ok THEN << ipv6Record.record >> ELSE << >>)
             response == [reply(msg) EXCEPT !.records = @ \o answer]
         IN  IF queryA \/ queryAAAA
             THEN IF Len(response.records) # 0
                  THEN sendMessage(response, ipv4, ipv6)
                  ELSE << >>
             ELSE << >>

----------------------------------------------------------------------------
(* The hostname claimer *)

\* mHostname = QHostInfo::localHostName() + ".local."
FirstName == localHostName \o ".local."

\* QString("-%1").arg(n)
SuffixString(n) == "-" \o ToString(n)

\* QString("%1%2.local.").arg(QHostInfo::localHostName()).arg(suffix)
SuffixedName(suffix) == localHostName \o suffix \o ".local."

\* Disqualifies without the test of the TTL
Disqualifies_AnyTtl(record, hostname) ==
    /\ record.type = "A" \/ record.type = "AAAA"
    /\ record.name = hostname

\* The condition of onReadyRead on one record of a response
Disqualifies(record, hostname) ==
    /\ record.type = "A" \/ record.type = "AAAA"
    /\ record.name = hostname
    /\ record.ttl # 0

\* Conflict with the probes sent before the rename
Conflict_ProbesFirst(claim, ipv4, ipv6) ==
    LET name == SuffixedName(SuffixString(claim.suffix))
    IN  [hostname |-> name,
         suffix |-> claim.suffix + 1,
         written |-> claim.written \o checkHostname("IPv4", claim.hostname, ipv4, ipv6)
                                   \o checkHostname("IPv6", claim.hostname, ipv4, ipv6),
         conflicts |-> claim.conflicts + 1]

\* Conflict with the counter incremented before it is formatted
Conflict_PreIncrement(claim, ipv4, ipv6) ==
    LET name == SuffixedName(SuffixString(claim.suffix + 1))
    IN  [hostname |-> name,
         suffix |-> claim.suffix + 1,
         written |-> claim.written \o checkHostname("IPv4", name, ipv4, ipv6)
                                   \o checkHostname("IPv6", name, ipv4, ipv6),
         conflicts |-> claim.conflicts + 1]

\* The body of that condition: rename, re-send both probes, stop reading.
\* claim is [hostname, suffix, written, conflicts].
Conflict(claim, ipv4, ipv6) ==
    LET name == SuffixedName(SuffixString(claim.suffix))
    IN  [hostname |-> name,
         suffix |-> claim.suffix + 1,
         written |-> claim.written \o checkHostname("IPv4", name, ipv4, ipv6)
                                   \o checkHostname("IPv6", name, ipv4, ipv6),
         conflicts |-> claim.conflicts + 1]

\* CheckRecords without the break
RECURSIVE CheckRecords_NoBreak(_, _, _, _)
CheckRecords_NoBreak(records, claim, ipv4, ipv6) ==
    IF records = << >> THEN claim
    ELSE IF Disqualifies(Head(records), claim.hostname)
         THEN CheckRecords_NoBreak(Tail(records), Conflict(claim, ipv4, ipv6), ipv4, ipv6)
         ELSE CheckRecords_NoBreak(Tail(records), claim, ipv4, ipv6)

\* The loop over message.records(), left at the first conflict
RECURSIVE CheckRecords(_, _, _, _)
CheckRecords(records, claim, ipv4, ipv6) ==
    IF records = << >> THEN claim
    ELSE IF Disqualifies(Head(records), claim.hostname)
         THEN Conflict(claim, ipv4, ipv6)
         ELSE CheckRecords(Tail(records), claim, ipv4, ipv6)

\* CheckResponse without the test of message.isResponse()
CheckResponse_AnyMessage(msg, claim, ipv4, ipv6) ==
    CheckRecords(msg.records, claim, ipv4, ipv6)

\* The unconfirmed branch of onReadyRead
CheckResponse(msg, claim, ipv4, ipv6) ==
    IF msg.isResponse THEN CheckRecords(msg.records, claim, ipv4, ipv6) ELSE claim

\* Route with every message given to the responder
Route_AlwaysRespond(confirmed, msg, claim, interfaces, ipv4, ipv6) ==
    [claim EXCEPT !.written =
        onMessageReceived(msg, claim.hostname, interfaces, ipv4, ipv6)]

\* Route without the test of mHostnameConfirmed
Route_AlwaysCheck(confirmed, msg, claim, interfaces, ipv4, ipv6) ==
    CheckResponse(msg, claim, ipv4, ipv6)

\* The branch of onReadyRead on mHostnameConfirmed, for a decoded message:
\* the responder once confirmed, the conflict check before
Route(confirmed, msg, claim, interfaces, ipv4, ipv6) ==
    IF confirmed
    THEN [claim EXCEPT !.written =
              onMessageReceived(msg, claim.hostname, interfaces, ipv4, ipv6)]
    ELSE CheckResponse(msg, claim, ipv4, ipv6)

----------------------------------------------------------------------------
(* The network binder *)

\* mHostnameSuffix = 2
FirstSuffix == 2

\* What the two bind calls and the setsockopt call of one bindSocket return.
BindOutcomes == [share : BOOLEAN, sockopt : BOOLEAN, reuse : BOOLEAN]

\* MdnsServer::bindSocket (Q_OS_UNIX; elsewhere only the second bind runs,
\* which is the outcome share = FALSE, sockopt = TRUE here): [state, errors]
bindSocket(state, outcome) ==
    IF outcome.share
    THEN [state |-> "BoundState", errors |-> << >>]
    ELSE LET optError == IF outcome.sockopt THEN << >> ELSE << "strerror(errno)" >>
         IN  IF outcome.reuse
             THEN [state |-> "BoundState", errors |-> optError]
             ELSE [state |-> state, errors |-> optError \o << "socket.errorString()" >>]

Join(socket, group, name) == [socket |-> socket, group |-> group, interface |-> name]

\* JoinGroups with the IPv6 join depending on ipv4Address
RECURSIVE JoinGroups_Mirror(_, _, _, _)
JoinGroups_Mirror(rest, interfaces, ipv4Bound, ipv6Bound) ==
    IF rest = << >> THEN << >>
    ELSE LET interface == Head(rest)
             ipv4Address == HasProtocol(allAddresses(interfaces), "IPv4")
             ipv6Address == HasProtocol(allAddresses(interfaces), "IPv6")
             calls == IF interface.canMulticast
                      THEN (IF ipv4Bound /\ ipv6Address
                            THEN << Join("IPv4", Ipv4Address, interface.name) >>
                            ELSE << >>)
                           \o (IF ipv6Bound /\ ipv4Address
                               THEN << Join("IPv6", Ipv6Address, interface.name) >>
                               ELSE << >>)
                      ELSE << >>
         IN  calls \o JoinGroups_Mirror(Tail(rest), interfaces, ipv4Bound, ipv6Bound)

\* The loop of onSocketTimeout over the interfaces: the joinMulticastGroup
\* calls it makes
RECURSIVE JoinGroups(_, _, _, _)
JoinGroups(rest, interfaces, ipv4Bound, ipv6Bound) ==
    IF rest = << >> THEN << >>
    ELSE LET interface == Head(rest)
             ipv4Address == HasProtocol(allAddresses(interfaces), "IPv4")
             ipv6Address == HasProtocol(allAddresses(interfaces), "IPv6")
             calls == IF interface.canMulticast
                      THEN (IF ipv4Bound /\ ipv6Address
                            THEN << Join("IPv4", Ipv4Address, interface.name) >>
                            ELSE << >>)
                           \o (IF ipv6Bound /\ ipv6Address
                               THEN << Join("IPv6", Ipv6Address, interface.name) >>
                               ELSE << >>)
                      ELSE << >>
         IN  calls \o JoinGroups(Tail(rest), interfaces, ipv4Bound, ipv6Bound)

\* StartsProbing without the test of mHostnameConfirmed
StartsProbing_Always(ipv4Bound, ipv6Bound, confirmed) ==
    ipv4Bound \/ ipv6Bound

\* The test of onSocketTimeout that starts a probing session
StartsProbing(ipv4Bound, ipv6Bound, confirmed) ==
    (ipv4Bound \/ ipv6Bound) /\ ~confirmed

\* NeedsBind without the test of the socket's state
NeedsBind_Always(state) == TRUE

\* "Bind the sockets if not already bound"
NeedsBind(state) == state # "BoundState"

\* MdnsServer::onSocketTimeout, from the fields, the interfaces and the
\* outcomes of the system calls to what it leaves behind
SocketCycle(ipv4, ipv6, confirmed, hostname, suffix, interfaces, o4, o6) ==
    LET bind4 == IF NeedsBind(ipv4) THEN bindSocket(ipv4, o4)
                 ELSE [state |-> ipv4, errors |-> << >>]
        bind6 == IF NeedsBind(ipv6) THEN bindSocket(ipv6, o6)
                 ELSE [state |-> ipv6, errors |-> << >>]
        ipv4Bound == bind4.state = "BoundState"
        ipv6Bound == bind6.state = "BoundState"
        probing == StartsProbing(ipv4Bound, ipv6Bound, confirmed)
    IN  [ipv4 |-> bind4.state,
         ipv6 |-> bind6.state,
         bindCalls |-> (IF NeedsBind(ipv4) THEN << "IPv4" >> ELSE << >>)
                       \o (IF NeedsBind(ipv6) THEN << "IPv6" >> ELSE << >>),
         errors |-> bind4.errors \o bind6.errors,
         joined |-> IF ipv4Bound \/ ipv6Bound
                    THEN JoinGroups(interfaces, interfaces, ipv4Bound, ipv6Bound)
                    ELSE << >>,
         probing |-> probing,
         hostname |-> IF probing THEN FirstName ELSE hostname,
         suffix |-> IF probing THEN FirstSuffix ELSE suffix,
         written |-> IF probing
                     THEN checkHostname("IPv4", FirstName, bind4.state, bind6.state)
                          \o checkHostname("IPv6", FirstName, bind4.state, bind6.state)
                     ELSE << >>]

----------------------------------------------------------------------------
(* Timers *)

Stopped == [active |-> FALSE, remaining |-> 0]
Started(seconds) == [active |-> TRUE, remaining |-> seconds]
Due(timer) == timer.active /\ timer.remaining = 0
Elapse(timer, seconds) ==
    IF timer.active THEN [timer EXCEPT !.remaining = @ - seconds] ELSE timer

Min(a, b) == IF a < b THEN a ELSE b

----------------------------------------------------------------------------
(* Construction *)

\* mHostnameSuffix has no initialiser: its value is indeterminate until the
\* first probing session assigns it.
Indeterminate == 0..MaxSuffix

\* MdnsServer::MdnsServer: the fields as constructed, then onSocketTimeout()
Init ==
    \E interfaces \in Topologies, garbage \in Indeterminate, o4 \in BindOutcomes,
       o6 \in BindOutcomes :
        LET r == SocketCycle("UnconnectedState", "UnconnectedState", FALSE, "",
                             garbage, interfaces, o4, o6)
        IN  /\ mHostnameConfirmed = FALSE
            /\ mHostname = r.hostname
            /\ mHostnameSuffix = r.suffix
            /\ mIpv4Socket = r.ipv4
            /\ mIpv6Socket = r.ipv6
            /\ mSocketTimer = Started(SocketInterval)
            /\ mHostnameTimer = IF r.probing THEN Started(HostnameInterval) ELSE Stopped
            /\ allInterfaces = interfaces
            /\ handler = "onSocketTimeout"
            /\ message = NoMessage
            /\ written = r.written
            /\ errors = r.errors
            /\ joined = r.joined
            /\ bindCalls = r.bindCalls
            /\ conflicts = 0
            /\ sinceProbe = IF r.probing THEN 0 ELSE HostnameInterval
            /\ probed = Probed(r.written, NeverProbed)

----------------------------------------------------------------------------
(* Inbound datagrams *)

RECURSIVE SeqsUpTo(_, _)
SeqsUpTo(S, n) ==
    IF n = 0 THEN { << >> }
    ELSE LET shorter == SeqsUpTo(S, n - 1)
         IN  shorter \cup { Append(q, x) : q \in { t \in shorter : Len(t) = n - 1 }, x \in S }

\* The records a peer may send: about the name being claimed, live or with
\* TTL 0 or of another type, about the name the next conflict would pick, and
\* about another host.
RecordChoices(hostname, suffix) ==
    { Record(hostname, "A", 120, Addr("IPv4", <<1, 1>>)),
      Record(hostname, "AAAA", 120, Addr("IPv6", <<1, 1>>)),
      Record(hostname, "A", 0, Addr("IPv4", <<1, 1>>)),
      Record(hostname, "TXT", 120, Addr("IPv4", <<1, 1>>)),
      Record(SuffixedName(SuffixString(suffix)), "A", 120, Addr("IPv4", <<1, 1>>)),
      Record("printer.local.", "A", 120, Addr("IPv4", <<1, 1>>)) }

\* The queries a peer may send.
QueryChoices(hostname) ==
    { Query(hostname, "A"), Query(hostname, "AAAA"), Query(hostname, "TXT"),
      Query("printer.local.", "A") }

\* The query and record sections of a message: one of them is empty.
Sections(hostname, suffix) ==
    { s \in SeqsUpTo(QueryChoices(hostname), MaxQueries)
            \X SeqsUpTo(RecordChoices(hostname, suffix), MaxRecords) :
        s[1] = << >> \/ s[2] = << >> }

\* What readDatagram and Mdns::fromPacket may deliver: a packet that does not
\* decode, or a message, tagged with its source and the source's protocol.
Inbound(hostname, suffix) ==
    { Message(FALSE, FALSE, a, a.protocol, << >>, << >>) : a \in Sources }
    \cup
    { Message(TRUE, isResponse, a, a.protocol, s[1], s[2]) :
        isResponse \in BOOLEAN, a \in Sources, s \in Sections(hostname, suffix) }

----------------------------------------------------------------------------
(* The handlers *)

\* The socket timer fires.
onSocketTimeout ==
    /\ handler = "none"
    /\ Due(mSocketTimer)
    /\ \E o4 \in BindOutcomes, o6 \in BindOutcomes :
        LET r == SocketCycle(mIpv4Socket, mIpv6Socket, mHostnameConfirmed, mHostname,
                             mHostnameSuffix, allInterfaces, o4, o6)
        IN  /\ mHostname' = r.hostname
            /\ mHostnameSuffix' = r.suffix
            /\ mIpv4Socket' = r.ipv4
            /\ mIpv6Socket' = r.ipv6
            /\ mHostnameTimer' = IF r.probing THEN Started(HostnameInterval)
                                 ELSE mHostnameTimer
            /\ written' = r.written
            /\ errors' = r.errors
            /\ joined' = r.joined
            /\ bindCalls' = r.bindCalls
            /\ conflicts' = IF r.probing THEN 0 ELSE conflicts
            /\ sinceProbe' = IF r.probing THEN 0 ELSE sinceProbe
            /\ probed' = Probed(r.written, probed)
    /\ mSocketTimer' = Started(SocketInterval)
    /\ handler' = "onSocketTimeout"
    /\ message' = NoMessage
    /\ UNCHANGED << mHostnameConfirmed, allInterfaces >>

\* The hostname timer fires.
onHostnameTimeout ==
    /\ handler = "none"
    /\ Due(mHostnameTimer)
    /\ mHostnameConfirmed' = TRUE
    /\ mHostnameTimer' = Stopped
    /\ handler' = "onHostnameTimeout"
    /\ message' = NoMessage
    /\ written' = << >>
    /\ errors' = << >>
    /\ joined' = << >>
    /\ bindCalls' = << >>
    /\ UNCHANGED << mHostname, mHostnameSuffix, mIpv4Socket, mIpv6Socket,
                    mSocketTimer, allInterfaces, conflicts, sinceProbe, probed >>

\* A bound socket has a datagram to read.
onReadyRead ==
    /\ handler = "none"
    /\ mHostnameConfirmed \/ mHostnameSuffix < MaxSuffix
    /\ \E msg \in Inbound(mHostname, mHostnameSuffix) :
        /\ (IF msg.protocol = "IPv4" THEN mIpv4Socket ELSE mIpv6Socket) = "BoundState"
        /\ message' = msg
        /\ IF ~msg.decoded
           THEN /\ written' = << >>
                /\ UNCHANGED << mHostname, mHostnameSuffix, conflicts, sinceProbe,
                                probed >>
           ELSE LET claim == Route(mHostnameConfirmed, msg,
                                 [hostname |-> mHostname, suffix |-> mHostnameSuffix,
                                  written |-> << >>, conflicts |-> conflicts],
                                 allInterfaces, mIpv4Socket, mIpv6Socket)
                IN  /\ mHostname' = claim.hostname
                    /\ mHostnameSuffix' = claim.suffix
                    /\ written' = claim.written
                    /\ conflicts' = claim.conflicts
                    /\ sinceProbe' = IF claim.conflicts # conflicts THEN 0 ELSE sinceProbe
                    /\ probed' = Probed(claim.written, probed)
    /\ handler' = "onReadyRead"
    /\ errors' = << >>
    /\ joined' = << >>
    /\ bindCalls' = << >>
    /\ UNCHANGED << mHostnameConfirmed, mIpv4Socket, mIpv6Socket, mSocketTimer,
                    mHostnameTimer, allInterfaces >>

----------------------------------------------------------------------------
(* The environment *)

\* What a handler read and did, the handler variables
outputs == << handler, message, written, errors, joined, bindCalls >>

\* The handler returns to the event loop: the message it read is discarded.
\* The event loop takes the next event only after that.
Return ==
    /\ handler # "none"
    /\ handler' = "none"
    /\ message' = NoMessage
    /\ written' = << >>
    /\ errors' = << >>
    /\ joined' = << >>
    /\ bindCalls' = << >>
    /\ UNCHANGED << mHostnameConfirmed, mHostname, mHostnameSuffix, mIpv4Socket,
                    mIpv6Socket, mSocketTimer, mHostnameTimer, allInterfaces,
                    conflicts, sinceProbe, probed >>

\* Time passes, as long as no timer is due: one second while the probe
\* window is open, and up to the next expiry of the socket timer otherwise.
Tick ==
    /\ handler = "none"
    /\ ~Due(mSocketTimer)
    /\ ~Due(mHostnameTimer)
    /\ LET seconds == IF mHostnameTimer.active THEN 1 ELSE mSocketTimer.remaining
       IN  /\ mSocketTimer' = Elapse(mSocketTimer, seconds)
           /\ mHostnameTimer' = Elapse(mHostnameTimer, seconds)
           /\ sinceProbe' = Min(sinceProbe + seconds, HostnameInterval)
    /\ UNCHANGED outputs
    /\ UNCHANGED << mHostnameConfirmed, mHostname, mHostnameSuffix, mIpv4Socket,
                    mIpv6Socket, allInterfaces, conflicts, probed >>

\* Interfaces appear, disappear or change their addresses.
InterfacesChange ==
    /\ handler = "none"
    /\ \E interfaces \in Topologies \ { allInterfaces } : allInterfaces' = interfaces
    /\ UNCHANGED outputs
    /\ UNCHANGED << mHostnameConfirmed, mHostname, mHostnameSuffix, mIpv4Socket,
                    mIpv6Socket, mSocketTimer, mHostnameTimer, conflicts, sinceProbe,
                    probed >>

Next ==
    \/ onSocketTimeout
    \/ onHostnameTimeout
    \/ onReadyRead
    \/ Return
    \/ Tick
    \/ InterfacesChange

Spec == Init /\ [][Next]_vars

----------------------------------------------------------------------------
(* Vocabulary of the properties *)

Bound(socket) == socket = "BoundState"

\* The name the claimer is expected to hold after n conflicts of a session.
ExpectedName(n) ==
    IF n = 0 THEN localHostName \o ".local."
    ELSE localHostName \o "-" \o ToString(n + 1) \o ".local."

\* A record asserting a live address for the name.
Live(record, name) ==
    record.name = name /\ record.type \in { "A", "AAAA" } /\ record.ttl > 0

\* onReadyRead has read and decoded a message, before or after confirmation.
ReadWhile(confirmed) ==
    handler = "onReadyRead" /\ mHostnameConfirmed = confirmed /\ message.decoded

\* The message read asks for the hostname with this type.
Asked(type) ==
    \E i \in 1..Len(message.queries) :
        message.queries[i].name = mHostname /\ message.queries[i].type = type

\* An address entry of the interface has the address in its subnet.
SubnetHolds(interface, address) ==
    \E j \in 1..Len(interface.addressEntries) :
        isInSubnet(address, interface.addressEntries[j].ip,
                   interface.addressEntries[j].prefixLength)

\* The addresses of one interface.
AddressesOf(interface) ==
    { interface.addressEntries[j].ip : j \in 1..Len(interface.addressEntries) }

\* Exactly one datagram was written, a reply with exactly one A record: the
\* hostname, TTL 3600, an address of the interface.
OneARecordOf(interface) ==
    /\ Len(written) = 1
    /\ written[1].packet.isResponse
    /\ LET records == written[1].packet.records
           a == { k \in 1..Len(records) : records[k].type = "A" }
       IN  /\ Cardinality(a) = 1
           /\ \A k \in a : /\ records[k].name = mHostname
                           /\ records[k].ttl = 3600
                           /\ records[k].address \in AddressesOf(interface)

----------------------------------------------------------------------------
(* Properties *)

\* C1: once a probing session has started, the hostname after the Nth
\* conflict of the session is "<localname>-<N+1>.local.", and
\* "<localname>.local." before any conflict; confirmation keeps it.
C1_NameAfterConflicts ==
    (Bound(mIpv4Socket) \/ Bound(mIpv6Socket)) => mHostname = ExpectedName(conflicts)

\* Two conflicts of one session have been handled.
C1_Witness ==
    /\ ~mHostnameConfirmed
    /\ handler = "onReadyRead"
    /\ conflicts = 2
    /\ mHostname = "laptop-3.local."

\* C2: once mHostnameConfirmed is true it stays true and mHostname never
\* changes, whatever timer fires or datagram arrives.
C2_ConfirmedIsFinal ==
    [][mHostnameConfirmed => (mHostnameConfirmed' /\ mHostname' = mHostname)]_vars

\* A response asserting a live record for the confirmed name has been read.
C2_Witness ==
    /\ ReadWhile(TRUE)
    /\ message.isResponse
    /\ \E i \in 1..Len(message.records) : Live(message.records[i], mHostname)

\* C3 (as claimed): onHostnameTimeout confirms the name only when a full
\* probe window has passed since the probes for it were last written.
C3_FullWindowBeforeConfirmed ==
    handler = "onHostnameTimeout" => sinceProbe = HostnameInterval

\* C4: while probing, a response in which every A or AAAA record for the
\* hostname has TTL 0 changes neither the hostname nor the suffix and
\* writes no datagram.
C4_ZeroTtlIsNoConflict ==
    [][(/\ handler' = "onReadyRead"
        /\ ~mHostnameConfirmed
        /\ message'.decoded
        /\ message'.isResponse
        /\ \A i \in 1..Len(message'.records) :
              (/\ message'.records[i].name = mHostname
               /\ message'.records[i].type \in { "A", "AAAA" })
              => message'.records[i].ttl = 0)
       => (/\ mHostname' = mHostname
           /\ mHostnameSuffix' = mHostnameSuffix
           /\ written' = << >>)]_vars

\* A response with a TTL 0 record for the hostname, and no live one, has
\* been read while probing.
C4_Witness ==
    /\ ReadWhile(FALSE)
    /\ message.isResponse
    /\ \E i \in 1..Len(message.records) :
          /\ message.records[i].name = mHostname
          /\ message.records[i].type = "A"
          /\ message.records[i].ttl = 0
    /\ \A i \in 1..Len(message.records) : ~Live(message.records[i], mHostname)

\* C5: once confirmed, no handler writes a probe (a datagram that is not a
\* response) and no handler starts the hostname timer.
C5_NoProbeAfterConfirmed ==
    [][mHostnameConfirmed
       => (/\ \A i \in 1..Len(written') : written'[i].packet.isResponse
           /\ mHostnameTimer' = mHostnameTimer
           /\ ~mHostnameTimer'.active)]_vars

\* A bind-and-join cycle has run after confirmation, with a socket bound.
C5_Witness ==
    /\ mHostnameConfirmed
    /\ handler = "onSocketTimeout"
    /\ Bound(mIpv4Socket) \/ Bound(mIpv6Socket)
    /\ joined # << >>

\* C6: once confirmed, a message that is not a response and has no query
\* for the hostname makes the server write nothing.
C6_OtherNameNoReply ==
    (/\ ReadWhile(TRUE)
     /\ ~message.isResponse
     /\ \A i \in 1..Len(message.queries) : message.queries[i].name # mHostname)
    => written = << >>

\* A query for the A record of another name has been read, from a source
\* for which an A record can be generated.
C6_Witness ==
    /\ ReadWhile(TRUE)
    /\ ~message.isResponse
    /\ message.queries = << Query("printer.local.", "A") >>
    /\ generateRecord(message.address, "A", mHostname, allInterfaces).ok

C8_NoSubnetNoReply ==
    (ReadWhile(TRUE) /\ ~message.isResponse)
    => LET okA == generateRecord(message.address, "A", mHostname, allInterfaces).ok
           okAAAA == generateRecord(message.address, "AAAA", mHostname, allInterfaces).ok
       IN  /\ (\A i \in 1..Len(allInterfaces) :
                  ~SubnetHolds(allInterfaces[i], message.address))
              => (~okA /\ ~okAAAA)
           /\ \A k \in 1..Len(written) :
                 /\ Len(written[k].packet.records) > 0
                 /\ \A j \in 1..Len(written[k].packet.records) :
                       /\ written[k].packet.records[j].type = "A" => okA
                       /\ written[k].packet.records[j].type = "AAAA" => okAAAA
           /\ ((Asked("A") => ~okA) /\ (Asked("AAAA") => ~okAAAA))
              => written = << >>

\* Both types were asked for from a source outside every subnet of a host
\* that has interfaces.
C8_Witness ==
    /\ ReadWhile(TRUE)
    /\ ~message.isResponse
    /\ Asked("A")
    /\ Asked("AAAA")
    /\ allInterfaces # << >>
    /\ \A i \in 1..Len(allInterfaces) : ~SubnetHolds(allInterfaces[i], message.address)
    /\ written = << >>

\* C9: while probing, a message that is not a response, and a response
\* without a live A or AAAA record for the hostname, leave the hostname, the
\* suffix, the confirmed flag and both timers as they were and write nothing.
C9_IgnoredWhileProbing ==
    [][(/\ handler' = "onReadyRead"
        /\ ~mHostnameConfirmed
        /\ message'.decoded
        /\ \/ ~message'.isResponse
           \/ \A i \in 1..Len(message'.records) : ~Live(message'.records[i], mHostname))
       => (/\ mHostname' = mHostname
           /\ mHostnameSuffix' = mHostnameSuffix
           /\ mHostnameConfirmed' = mHostnameConfirmed
           /\ mSocketTimer' = mSocketTimer
           /\ mHostnameTimer' = mHostnameTimer
           /\ written' = << >>)]_vars

\* A message that is not a response but carries a live record for the
\* hostname has been read while probing.
C9_Witness ==
    /\ ReadWhile(FALSE)
    /\ ~message.isResponse
    /\ \E i \in 1..Len(message.records) : Live(message.records[i], mHostname)

\* C10: every run of onSocketTimeout leaves the socket timer started with
\* 60 s; it calls bindSocket for exactly the sockets that were not bound;
\* a socket that is still not bound afterwards has had its error emitted.
C10_RebindCycle ==
    /\ [](handler = "onSocketTimeout"
          => /\ mSocketTimer = Started(60)
             /\ \A i \in 1..Len(bindCalls) : bindCalls[i] \in { "IPv4", "IPv6" }
             /\ ~Bound(mIpv4Socket) => \E i \in 1..Len(bindCalls) : bindCalls[i] = "IPv4"
             /\ ~Bound(mIpv6Socket) => \E i \in 1..Len(bindCalls) : bindCalls[i] = "IPv6"
             /\ Cardinality({ i \in 1..Len(errors) : errors[i] = "socket.errorString()" })
                = Cardinality({ s \in { <<"IPv4", mIpv4Socket>>, <<"IPv6", mIpv6Socket>> } :
                                  ~Bound(s[2]) }))
    /\ [][handler' = "onSocketTimeout"
          => /\ (\E i \in 1..Len(bindCalls') : bindCalls'[i] = "IPv4") <=> ~Bound(mIpv4Socket)
             /\ (\E i \in 1..Len(bindCalls') : bindCalls'[i] = "IPv6") <=> ~Bound(mIpv6Socket)]_vars

\* A cycle has run with the IPv4 socket already bound and the bind of the
\* IPv6 socket failing once more.
C10_Witness ==
    /\ handler = "onSocketTimeout"
    /\ Bound(mIpv4Socket)
    /\ ~Bound(mIpv6Socket)
    /\ bindCalls = << "IPv6" >>
    /\ errors # << >>
    /\ mHostnameConfirmed

\* joinMulticastGroup was called on the socket for the interface.
JoinedOn(socket, name) ==
    \E k \in 1..Len(joined) : joined[k].socket = socket /\ joined[k].interface = name

\* The interface has an address of the protocol.
HasFamily(interface, protocol) ==
    \E a \in AddressesOf(interface) : a.protocol = protocol

\* C11 (as claimed): in a cycle the IPv4 socket joins the IPv4 group on an
\* interface exactly when the socket is bound, the interface can multicast
\* and the interface has an IPv6 address.
C11_Ipv4JoinPerInterface ==
    handler = "onSocketTimeout"
    => \A i \in 1..Len(allInterfaces) :
          JoinedOn("IPv4", allInterfaces[i].name)
          <=> (/\ Bound(mIpv4Socket)
               /\ allInterfaces[i].canMulticast
               /\ HasFamily(allInterfaces[i], "IPv6"))

RecordsOfType(datagram, type) ==
    Cardinality({ j \in 1..Len(datagram.packet.records) :
                    datagram.packet.records[j].type = type })

\* C13: once confirmed, for a message that is not a response, a reply is
\* written exactly when a type asked for with the hostname can be generated,
\* and it carries one A record exactly when A was asked for and generated,
\* one AAAA record exactly when AAAA was asked for and generated, and never
\* two records of a type.
C13_TypesIndependent ==
    (ReadWhile(TRUE) /\ ~message.isResponse)
    => LET a == Asked("A")
                /\ generateRecord(message.address, "A", mHostname, allInterfaces).ok
           aaaa == Asked("AAAA")
                   /\ generateRecord(message.address, "AAAA", mHostname, allInterfaces).ok
       IN  /\ Len(written) = (IF a \/ aaaa THEN 1 ELSE 0)
           /\ \A k \in 1..Len(written) :
                 /\ written[k].packet.isResponse
                 /\ RecordsOfType(written[k], "A") = (IF a THEN 1 ELSE 0)
                 /\ RecordsOfType(written[k], "AAAA") = (IF aaaa THEN 1 ELSE 0)
                 /\ Len(written[k].packet.records)
                    = RecordsOfType(written[k], "A") + RecordsOfType(written[k], "AAAA")

\* Both types were asked for, no A record could be generated, and the reply
\* carries the AAAA record alone.
C13_Witness ==
    /\ ReadWhile(TRUE)
    /\ ~message.isResponse
    /\ Asked("A")
    /\ Asked("AAAA")
    /\ ~generateRecord(message.address, "A", mHostname, allInterfaces).ok
    /\ Len(written) = 1
    /\ RecordsOfType(written[1], "AAAA") = 1
    /\ RecordsOfType(written[1], "A") = 0

\* The first interface, in enumeration order, with an address entry whose
\* subnet holds the address.
FirstSubnetInterface(address) ==
    allInterfaces[CHOOSE i \in 1..Len(allInterfaces) :
                     /\ SubnetHolds(allInterfaces[i], address)
                     /\ \A k \in 1..(i - 1) : ~SubnetHolds(allInterfaces[k], address)]

\* C14 (as claimed): when the first interface whose subnet holds the
\* querier has no address of the protocol of a type asked for, generateRecord
\* fails for that type and no reply carries a record of it.
C14_FailsWithoutFamily ==
    (/\ ReadWhile(TRUE)
     /\ ~message.isResponse
     /\ \E i \in 1..Len(allInterfaces) : SubnetHolds(allInterfaces[i], message.address))
    => \A t \in { <<"A", "IPv4">>, <<"AAAA", "IPv6">> } :
          (Asked(t[1]) /\ ~HasFamily(FirstSubnetInterface(message.address), t[2]))
          => /\ ~generateRecord(message.address, t[1], mHostname, allInterfaces).ok
             /\ \A k \in 1..Len(written) : RecordsOfType(written[k], t[1]) = 0

\* The datagram is a probe: a query message with the one query for the name
\* and the type, and no record.
IsProbe(datagram, type, name) ==
    /\ ~datagram.packet.isResponse
    /\ datagram.packet.queries = << Query(name, type) >>
    /\ datagram.packet.records = << >>

\* C15: while probing, reading one message either leaves the name and the
\* suffix alone and writes nothing, or counts one conflict: the suffix grows
\* by exactly one and exactly one A probe and one AAAA probe are written, both
\* for the new name, however many records of the message disqualify.
C15_OneConflictPerResponse ==
    [][(handler' = "onReadyRead" /\ ~mHostnameConfirmed)
       => \/ /\ mHostnameSuffix' = mHostnameSuffix
             /\ mHostname' = mHostname
             /\ conflicts' = conflicts
             /\ written' = << >>
          \/ /\ mHostnameSuffix' = mHostnameSuffix + 1
             /\ conflicts' = conflicts + 1
             /\ Len(written') = 2
             /\ IsProbe(written'[1], "A", mHostname')
             /\ IsProbe(written'[2], "AAAA", mHostname')]_vars

\* A response was read whose first record disqualified the first name and
\* whose second record is a live record for the name chosen in its place:
\* one conflict was counted.
C15_Witness ==
    /\ ReadWhile(FALSE)
    /\ message.isResponse
    /\ Len(message.records) = 2
    /\ Live(message.records[1], FirstName)
    /\ Live(message.records[2], mHostname)
    /\ mHostname = "laptop-2.local."
    /\ mHostnameSuffix = FirstSuffix + 1
    /\ conflicts = 1
    /\ Len(written) = 2

\* C16: before confirmation every datagram written is a probe, a query
\* message with one query and no record, so no reply is sent; and a message
\* read after confirmation goes to the responder only: the name, the suffix
\* and the conflict count stay and whatever is written is a reply.
C16_RoutedByConfirmed ==
    /\ [](~mHostnameConfirmed
          => \A k \in 1..Len(written) :
                /\ ~written[k].packet.isResponse
                /\ Len(written[k].packet.queries) = 1
                /\ written[k].packet.records = << >>)
    /\ [][(handler' = "onReadyRead" /\ mHostnameConfirmed)
          => /\ mHostname' = mHostname
             /\ mHostnameSuffix' = mHostnameSuffix
             /\ conflicts' = conflicts
             /\ \A k \in 1..Len(written') : written'[k].packet.isResponse]_vars

\* Before confirmation a query for the A record of the name was read from a
\* querier for whom a record can be generated, and nothing was written.
C16_Witness ==
    /\ ReadWhile(FALSE)
    /\ ~message.isResponse
    /\ Asked("A")
    /\ generateRecord(message.address, "A", mHostname, allInterfaces).ok
    /\ written = << >>

\* C17 (as claimed): every record of a reply written carries an address of
\* the protocol of its type: IPv4 for A, IPv6 for AAAA.
C17_AddressFamilyMatchesType ==
    \A k \in 1..Len(written) :
        \A j \in 1..Len(written[k].packet.records) :
            LET record == written[k].packet.records[j]
            IN  /\ record.type = "A" => record.address.protocol = "IPv4"
                /\ record.type = "AAAA" => record.address.protocol = "IPv6"

\* C18 (as claimed): every writeDatagram call is made on a socket in the
\* bound state.
C18_WrittenOnlyWhenBound ==
    \A k \in 1..Len(written) : Bound(written[k].socketState)

\* C19: with the two timers as clocks, whenever onSocketTimeout runs no
\* probing session is in progress: the probe timer is not running and, if a
\* socket is bound, the name is confirmed; so a cycle that follows a conflict
\* leaves the name and the suffix as the conflict set them.
C19_NoCycleWhileProbing ==
    [][handler' = "onSocketTimeout"
       => /\ ~mHostnameTimer.active
          /\ (Bound(mIpv4Socket) \/ Bound(mIpv6Socket)) => mHostnameConfirmed
          /\ conflicts > 0 => /\ mHostname' = mHostname
                              /\ mHostnameSuffix' = mHostnameSuffix
                              /\ conflicts' = conflicts]_vars

\* A rebind cycle has run after a session in which a conflict was handled,
\* and the name chosen by the conflict is still held.
C19_Witness ==
    /\ handler = "onSocketTimeout"
    /\ mHostnameConfirmed
    /\ conflicts = 1
    /\ mHostname = "laptop-2.local."
    /\ mHostnameSuffix = FirstSuffix + 1

\* C20: when the name is confirmed it is not empty, it is the name of the
\* last A probe and of the last AAAA probe written, and a socket is bound;
\* and as long as no socket is bound the name is empty, nothing is written,
\* no probe was ever written, the probe timer is stopped and the name is not
\* confirmed.
C20_ConfirmedNameWasProbed ==
    /\ mHostnameConfirmed
       => /\ mHostname # ""
          /\ probed.A = mHostname
          /\ probed.AAAA = mHostname
          /\ Bound(mIpv4Socket) \/ Bound(mIpv6Socket)
    /\ (~Bound(mIpv4Socket) /\ ~Bound(mIpv6Socket))
       => /\ mHostname = ""
          /\ written = << >>
          /\ probed = NeverProbed
          /\ ~mHostnameTimer.active
          /\ ~mHostnameConfirmed

\* A name chosen by a conflict has been confirmed, and both last probes
\* carried it.
C20_Witness ==
    /\ handler = "onHostnameTimeout"
    /\ mHostnameConfirmed
    /\ conflicts = 1
    /\ mHostname = "laptop-2.local."
    /\ probed = [A |-> "laptop-2.local.", AAAA |-> "laptop-2.local."]

====
